---- MODULE Spec2Model ----
(***************************************************************************)
(* ManagedIntervals (src/mylib/set_interval.py): a set of integers kept as *)
(* a sorted list of disjoint half-open intervals [l, r), with a running    *)
(* total of their lengths.                                                 *)
(*                                                                         *)
(* Spec     : one caller; every add / remove / get_interval / __contains__ *)
(*            call runs to completion before the next one starts.          *)
(* ConcSpec : two callers sharing one instance without a lock; add and     *)
(*            remove proceed in the steps of their code (scan, remove the  *)
(*            collected intervals, adjust / insert, adjust).               *)
(***************************************************************************)
EXTENDS Integers, Sequences, FiniteSets

\* Largest coordinate the callers of Spec pass; the smallest is -1.
MaxCoord == 5
\* Largest coordinate the callers of ConcSpec pass; the smallest is 0.
MaxConcCoord == 2
\* Number of add/remove calls the callers of ConcSpec start.
MaxCalls == 3

Coords == -1 .. MaxCoord
ConcCoords == 0 .. MaxConcCoord
Threads == {"t1", "t2"}

VARIABLES
    intervals,     \* self._intervals: sequence of <<l, r>>, kept sorted
    total_length,  \* self._total_length
    last,          \* the call that completed last: op, arguments, outcome
    before,        \* intervals and total_length when that call started
    chain,         \* how the last call relates to the one before it
    th,            \* ConcSpec: per caller, position in add/remove and locals
    calls,         \* ConcSpec: number of add/remove calls started
    overlapped     \* ConcSpec: a call started while another was in progress

vars == <<intervals, total_length, last, before, chain, th, calls, overlapped>>

\* Python's None as a value comparable with a pair <<l, r>>.
None == <<>>

Min(a, b) == IF a <= b THEN a ELSE b
Max(a, b) == IF a >= b THEN a ELSE b

\* sum(R - L for L, R in seq)
RECURSIVE SumLen(_)
SumLen(seq) ==
    IF seq = <<>> THEN 0
    ELSE (Head(seq)[2] - Head(seq)[1]) + SumLen(Tail(seq))

(***************************************************************************)
(* sortedcontainers.SortedList, as far as the class uses it.               *)
(***************************************************************************)
\* Python's order on tuples (l, r).
TupleLeq(a, b) == a[1] < b[1] \/ (a[1] = b[1] /\ a[2] <= b[2])

\* self._intervals.bisect_right((x, float("inf"))): the number of stored
\* pairs that sort at or before (x, +inf), i.e. those with start <= x.
bisect_right(s, x) == Cardinality({i \in 1 .. Len(s) : s[i][1] <= x})

\* self._intervals.add(v): v goes after every element that is <= v.
SortedAdd(s, v) ==
    LET k == Cardinality({i \in 1 .. Len(s) : TupleLeq(s[i], v)})
    IN  SubSeq(s, 1, k) \o <<v>> \o SubSeq(s, k + 1, Len(s))

SortedHas(s, v) == \E i \in 1 .. Len(s) : s[i] = v

\* self._intervals.remove(v) when v is stored: its first occurrence goes.
SortedRemove(s, v) ==
    LET k == CHOOSE i \in 1 .. Len(s) :
                 s[i] = v /\ \A j \in 1 .. (i - 1) : s[j] # v
    IN  SubSeq(s, 1, k - 1) \o SubSeq(s, k + 1, Len(s))

\* Variant: the collected intervals are left in the list.
RemoveCollectedKept(s, to_remove) == [intervals |-> s, raised |-> FALSE]

\* for interval in to_remove: self._intervals.remove(interval)
\* SortedList.remove raises ValueError for a value that is not stored; the
\* removals made before it stay.
RECURSIVE RemoveCollected(_, _)
RemoveCollected(s, to_remove) ==
    IF to_remove = <<>> THEN [intervals |-> s, raised |-> FALSE]
    ELSE IF ~SortedHas(s, Head(to_remove))
         THEN [intervals |-> s, raised |-> TRUE]
         ELSE RemoveCollected(SortedRemove(s, Head(to_remove)), Tail(to_remove))

\* for interval in to_add: self._intervals.add(interval)
RECURSIVE AddAll(_, _)
AddAll(s, to_add) ==
    IF to_add = <<>> THEN s
    ELSE AddAll(SortedAdd(s, Head(to_add)), Tail(to_add))

\* Variant: the scan starts after the predecessor of l.
StartIndexNoStepBack(s, l) == bisect_right(s, l)

\* idx = bisect_right((l, inf)); if idx > 0: idx -= 1   (0-based)
StartIndex(s, l) ==
    LET idx == bisect_right(s, l)
    IN  IF idx > 0 THEN idx - 1 ELSE idx

(***************************************************************************)
(* add                                                                     *)
(***************************************************************************)
\* Variant: only an inverted range returns early.
AddEmptyRangeStrict(l, r) == l > r

\* if l >= r: return
AddEmptyRange(l, r) == l >= r

\* Variant: an interval that starts at merged_r ends the scan.
AddBreakAtTouch(L, merged_r) == L >= merged_r

\* if L > merged_r: break
AddBreak(L, merged_r) == L > merged_r

\* Variant: an interval that ends at merged_l is skipped.
AddSkipAtTouch(R, merged_l) == R <= merged_l

\* if R < merged_l: continue
AddSkip(R, merged_l) == R < merged_l

\* The loop of add from 1-based position i on.
RECURSIVE AddLoop(_, _, _, _, _)
AddLoop(s, i, to_remove, merged_l, merged_r) ==
    IF i > Len(s)
    THEN [to_remove |-> to_remove, merged_l |-> merged_l, merged_r |-> merged_r]
    ELSE LET L == s[i][1]
             R == s[i][2]
         IN  IF AddBreak(L, merged_r)
             THEN [to_remove |-> to_remove, merged_l |-> merged_l,
                   merged_r |-> merged_r]
             ELSE IF AddSkip(R, merged_l)
                  THEN AddLoop(s, i + 1, to_remove, merged_l, merged_r)
                  ELSE AddLoop(s, i + 1, Append(to_remove, <<L, R>>),
                               Min(merged_l, L), Max(merged_r, R))

\* Step 1 of add: to_remove, merged_l, merged_r.
AddScan(s, l, r) == AddLoop(s, StartIndex(s, l) + 1, <<>>, l, r)

\* Variant: the lengths of the merged intervals are not taken off.
SubOldLenForgotten(t, to_remove) == t

\* self._total_length -= old_len
SubOldLen(t, to_remove) == t - SumLen(to_remove)

\* self._total_length += merged_r - merged_l
AddMergedLen(t, merged_l, merged_r) == t + (merged_r - merged_l)

\* Lines 68-105 of add: scan, remove the collected, insert the merged one.
AddMerge(s, t, l, r) ==
    LET sc == AddScan(s, l, r)
        rm == IF sc.to_remove # <<>>
              THEN RemoveCollected(s, sc.to_remove)
              ELSE [intervals |-> s, raised |-> FALSE]
    IN  IF rm.raised
        THEN [intervals |-> rm.intervals, total_length |-> t,
              outcome |-> "ValueError"]
        ELSE [intervals |->
                  SortedAdd(rm.intervals, <<sc.merged_l, sc.merged_r>>),
              total_length |->
                  AddMergedLen(IF sc.to_remove # <<>>
                               THEN SubOldLen(t, sc.to_remove) ELSE t,
                               sc.merged_l, sc.merged_r),
              outcome |-> "returned"]

\* Variant: an inverted range is rejected with InvalidRange.
addRejecting(s, t, l, r) ==
    IF r < l
    THEN [intervals |-> s, total_length |-> t, outcome |-> "InvalidRange"]
    ELSE IF l = r
         THEN [intervals |-> s, total_length |-> t, outcome |-> "returned"]
         ELSE AddMerge(s, t, l, r)

\* A whole call add(l, r) on <<s, t>>.
add(s, t, l, r) ==
    IF AddEmptyRange(l, r)
    THEN [intervals |-> s, total_length |-> t, outcome |-> "returned"]
    ELSE AddMerge(s, t, l, r)

(***************************************************************************)
(* remove                                                                  *)
(***************************************************************************)
\* if l >= r: return
RemoveEmptyRange(l, r) == l >= r

\* if L >= r: break
RemoveBreak(L, r) == L >= r

\* if R <= l: continue
RemoveSkip(R, l) == R <= l

\* Variant: a left remnant is kept even when it is empty.
LeftRemnantInclusive(L, R, l) == IF L <= l THEN <<(<<L, l>>)>> ELSE <<>>

\* if L < l: to_add.append((L, l))
LeftRemnant(L, R, l) == IF L < l THEN <<(<<L, l>>)>> ELSE <<>>

\* Variant: a right remnant is kept even when it is empty.
RightRemnantInclusive(L, R, r) == IF r <= R THEN <<(<<r, R>>)>> ELSE <<>>

\* if r < R: to_add.append((r, R))
RightRemnant(L, R, r) == IF r < R THEN <<(<<r, R>>)>> ELSE <<>>

\* The loop of remove from 1-based position i on.
RECURSIVE RemoveLoop(_, _, _, _, _, _)
RemoveLoop(s, i, to_remove, to_add, l, r) ==
    IF i > Len(s)
    THEN [to_remove |-> to_remove, to_add |-> to_add]
    ELSE LET L == s[i][1]
             R == s[i][2]
         IN  IF RemoveBreak(L, r)
             THEN [to_remove |-> to_remove, to_add |-> to_add]
             ELSE IF RemoveSkip(R, l)
                  THEN RemoveLoop(s, i + 1, to_remove, to_add, l, r)
                  ELSE RemoveLoop(s, i + 1, Append(to_remove, <<L, R>>),
                                  to_add \o LeftRemnant(L, R, l)
                                         \o RightRemnant(L, R, r),
                                  l, r)

\* Steps 1 and 2 of remove: to_remove and to_add.
RemoveScan(s, l, r) == RemoveLoop(s, StartIndex(s, l) + 1, <<>>, <<>>, l, r)

\* self._total_length += new_len - old_len
AdjustLen(t, to_remove, to_add) == t + (SumLen(to_add) - SumLen(to_remove))

\* Lines 122-167 of remove: scan, remove the collected, insert the remnants.
RemoveSplit(s, t, l, r) ==
    LET sc == RemoveScan(s, l, r)
    IN  IF sc.to_remove = <<>>
        THEN [intervals |-> s, total_length |-> t, outcome |-> "returned"]
        ELSE LET rm == RemoveCollected(s, sc.to_remove)
             IN  IF rm.raised
                 THEN [intervals |-> rm.intervals, total_length |-> t,
                       outcome |-> "ValueError"]
                 ELSE [intervals |-> AddAll(rm.intervals, sc.to_add),
                       total_length |->
                           AdjustLen(t, sc.to_remove, sc.to_add),
                       outcome |-> "returned"]

\* A whole call remove(l, r) on <<s, t>>.
remove(s, t, l, r) ==
    IF RemoveEmptyRange(l, r)
    THEN [intervals |-> s, total_length |-> t, outcome |-> "returned"]
    ELSE RemoveSplit(s, t, l, r)

(***************************************************************************)
(* Queries                                                                 *)
(***************************************************************************)
\* Variant: the right end counts as inside.
InCandidateInclusive(x, r) == x <= r

\* if x < r: return (l, r)
InCandidate(x, r) == x < r

get_interval(s, x) ==
    LET idx == bisect_right(s, x)
    IN  IF idx = 0 THEN None
        ELSE IF InCandidate(x, s[idx][2]) THEN s[idx] ELSE None

contains(s, x) == get_interval(s, x) # None

(***************************************************************************)
(* Spec: calls one after the other                                         *)
(***************************************************************************)
NoCall == [op |-> "none", l |-> 0, r |-> 0, outcome |-> "returned",
           result |-> None, found |-> FALSE]

IdleThread == [pc |-> "idle", op |-> "none", l |-> 0, r |-> 0,
               to_remove |-> <<>>, to_add |-> <<>>,
               merged_l |-> 0, merged_r |-> 0, loaded |-> 0]

Init ==
    /\ intervals = <<>>
    /\ total_length = 0
    /\ last = NoCall
    /\ before = [intervals |-> <<>>, total_length |-> 0]
    /\ chain = "none"
    /\ th = [t \in Threads |-> IdleThread]
    /\ calls = 0
    /\ overlapped = FALSE

Snapshot == [intervals |-> intervals, total_length |-> total_length]

Add(l, r) ==
    LET res == add(intervals, total_length, l, r)
    IN  /\ intervals' = res.intervals
        /\ total_length' = res.total_length
        /\ last' = [op |-> "add", l |-> l, r |-> r, outcome |-> res.outcome,
                    result |-> None, found |-> FALSE]
        /\ before' = Snapshot
        /\ chain' = IF last.op = "add" /\ last.l = l /\ last.r = r
                    THEN "add_add" ELSE "none"
        /\ UNCHANGED <<th, calls, overlapped>>

Remove(l, r) ==
    LET res == remove(intervals, total_length, l, r)
    IN  /\ intervals' = res.intervals
        /\ total_length' = res.total_length
        /\ last' = [op |-> "remove", l |-> l, r |-> r, outcome |-> res.outcome,
                    result |-> None, found |-> FALSE]
        /\ before' = Snapshot
        /\ chain' = IF /\ last.op = "add" /\ last.l = l /\ last.r = r
                       /\ before.intervals = <<>>
                    THEN "empty_add_remove" ELSE "none"
        /\ UNCHANGED <<th, calls, overlapped>>

GetInterval(x) ==
    /\ last' = [op |-> "get_interval", l |-> x, r |-> x,
                outcome |-> "returned",
                result |-> get_interval(intervals, x), found |-> FALSE]
    /\ before' = Snapshot
    /\ chain' = "none"
    /\ UNCHANGED <<intervals, total_length, th, calls, overlapped>>

Contains(x) ==
    /\ last' = [op |-> "contains", l |-> x, r |-> x, outcome |-> "returned",
                result |-> None, found |-> contains(intervals, x)]
    /\ before' = Snapshot
    /\ chain' = "none"
    /\ UNCHANGED <<intervals, total_length, th, calls, overlapped>>

Next ==
    \/ \E l \in Coords, r \in Coords : Add(l, r)
    \/ \E l \in Coords, r \in Coords : Remove(l, r)
    \/ \E x \in Coords : GetInterval(x)
    \/ \E x \in Coords : Contains(x)

Spec == Init /\ [][Next]_vars

(***************************************************************************)
(* ConcSpec: two callers, no lock.  A step is one of the stages of the     *)
(* code: the scan (lines 68-95 / 122-154), the removal of the collected    *)
(* intervals (100-101 / 161-162), the insertions (104 / 164-165) and the   *)
(* updates of _total_length (102, 105 / 167), each a load of the attribute *)
(* followed by a store of the new value.                                   *)
(***************************************************************************)
AllIdle == \A t \in Threads : th[t].pc = "idle"

SeqFrame == UNCHANGED <<last, before, chain>>

\* A caller enters add(l, r) or remove(l, r); lines 65-66 / 119-120 return
\* at once for l >= r.
Begin(t, op, l, r) ==
    /\ th[t].pc = "idle"
    /\ calls < MaxCalls
    /\ calls' = calls + 1
    /\ overlapped' = (overlapped \/ \E u \in Threads \ {t} : th[u].pc # "idle")
    /\ th' = [th EXCEPT ![t] =
                 IF l >= r THEN IdleThread
                 ELSE [IdleThread EXCEPT !.pc = "scan", !.op = op,
                                         !.l = l, !.r = r]]
    /\ UNCHANGED <<intervals, total_length>>
    /\ SeqFrame

AddScanStep(t) ==
    /\ th[t].pc = "scan" /\ th[t].op = "add"
    /\ LET sc == AddScan(intervals, th[t].l, th[t].r)
       IN  th' = [th EXCEPT ![t].to_remove = sc.to_remove,
                            ![t].merged_l = sc.merged_l,
                            ![t].merged_r = sc.merged_r,
                            ![t].pc = IF sc.to_remove # <<>>
                                      THEN "remove" ELSE "insert"]
    /\ UNCHANGED <<intervals, total_length, calls, overlapped>>
    /\ SeqFrame

AddRemoveStep(t) ==
    /\ th[t].pc = "remove" /\ th[t].op = "add"
    /\ LET rm == RemoveCollected(intervals, th[t].to_remove)
       IN  /\ intervals' = rm.intervals
           /\ th' = [th EXCEPT ![t] =
                        IF rm.raised THEN IdleThread
                        ELSE [th[t] EXCEPT !.pc = "sub"]]
    /\ UNCHANGED <<total_length, calls, overlapped>>
    /\ SeqFrame

\* Line 102 loads self._total_length ...
AddSubLoad(t) ==
    /\ th[t].pc = "sub" /\ th[t].op = "add"
    /\ th' = [th EXCEPT ![t].loaded = total_length, ![t].pc = "sub_store"]
    /\ UNCHANGED <<intervals, total_length, calls, overlapped>>
    /\ SeqFrame

\* ... and stores the difference.
AddSubStore(t) ==
    /\ th[t].pc = "sub_store" /\ th[t].op = "add"
    /\ total_length' = SubOldLen(th[t].loaded, th[t].to_remove)
    /\ th' = [th EXCEPT ![t].loaded = 0, ![t].pc = "insert"]
    /\ UNCHANGED <<intervals, calls, overlapped>>
    /\ SeqFrame

AddInsertStep(t) ==
    /\ th[t].pc = "insert" /\ th[t].op = "add"
    /\ intervals' = SortedAdd(intervals, <<th[t].merged_l, th[t].merged_r>>)
    /\ th' = [th EXCEPT ![t].pc = "adjust"]
    /\ UNCHANGED <<total_length, calls, overlapped>>
    /\ SeqFrame

\* Line 105 loads self._total_length ...
AddLenLoad(t) ==
    /\ th[t].pc = "adjust" /\ th[t].op = "add"
    /\ th' = [th EXCEPT ![t].loaded = total_length, ![t].pc = "adjust_store"]
    /\ UNCHANGED <<intervals, total_length, calls, overlapped>>
    /\ SeqFrame

\* ... and stores the sum; add returns.
AddLenStore(t) ==
    /\ th[t].pc = "adjust_store" /\ th[t].op = "add"
    /\ total_length' = AddMergedLen(th[t].loaded, th[t].merged_l, th[t].merged_r)
    /\ th' = [th EXCEPT ![t] = IdleThread]
    /\ UNCHANGED <<intervals, calls, overlapped>>
    /\ SeqFrame

RemoveScanStep(t) ==
    /\ th[t].pc = "scan" /\ th[t].op = "remove"
    /\ LET sc == RemoveScan(intervals, th[t].l, th[t].r)
       IN  th' = [th EXCEPT ![t] =
                     IF sc.to_remove = <<>> THEN IdleThread
                     ELSE [th[t] EXCEPT !.to_remove = sc.to_remove,
                                        !.to_add = sc.to_add,
                                        !.pc = "remove"]]
    /\ UNCHANGED <<intervals, total_length, calls, overlapped>>
    /\ SeqFrame

RemoveRemoveStep(t) ==
    /\ th[t].pc = "remove" /\ th[t].op = "remove"
    /\ LET rm == RemoveCollected(intervals, th[t].to_remove)
       IN  /\ intervals' = rm.intervals
           /\ th' = [th EXCEPT ![t] =
                        IF rm.raised THEN IdleThread
                        ELSE [th[t] EXCEPT !.pc = "insert"]]
    /\ UNCHANGED <<total_length, calls, overlapped>>
    /\ SeqFrame

RemoveInsertStep(t) ==
    /\ th[t].pc = "insert" /\ th[t].op = "remove"
    /\ intervals' = AddAll(intervals, th[t].to_add)
    /\ th' = [th EXCEPT ![t].pc = "adjust"]
    /\ UNCHANGED <<total_length, calls, overlapped>>
    /\ SeqFrame

\* Line 167 loads self._total_length ...
RemoveLenLoad(t) ==
    /\ th[t].pc = "adjust" /\ th[t].op = "remove"
    /\ th' = [th EXCEPT ![t].loaded = total_length, ![t].pc = "adjust_store"]
    /\ UNCHANGED <<intervals, total_length, calls, overlapped>>
    /\ SeqFrame

\* ... and stores the adjusted value; remove returns.
RemoveLenStore(t) ==
    /\ th[t].pc = "adjust_store" /\ th[t].op = "remove"
    /\ total_length' = AdjustLen(th[t].loaded, th[t].to_remove, th[t].to_add)
    /\ th' = [th EXCEPT ![t] = IdleThread]
    /\ UNCHANGED <<intervals, calls, overlapped>>
    /\ SeqFrame

ConcNext ==
    \/ \E t \in Threads, l \in ConcCoords, r \in ConcCoords :
           Begin(t, "add", l, r)
    \/ \E t \in Threads, l \in ConcCoords, r \in ConcCoords :
           Begin(t, "remove", l, r)
    \/ \E t \in Threads : AddScanStep(t)
    \/ \E t \in Threads : AddRemoveStep(t)
    \/ \E t \in Threads : AddSubLoad(t)
    \/ \E t \in Threads : AddSubStore(t)
    \/ \E t \in Threads : AddInsertStep(t)
    \/ \E t \in Threads : AddLenLoad(t)
    \/ \E t \in Threads : AddLenStore(t)
    \/ \E t \in Threads : RemoveScanStep(t)
    \/ \E t \in Threads : RemoveRemoveStep(t)
    \/ \E t \in Threads : RemoveInsertStep(t)
    \/ \E t \in Threads : RemoveLenLoad(t)
    \/ \E t \in Threads : RemoveLenStore(t)

ConcSpec == Init /\ [][ConcNext]_vars

(***************************************************************************)
(* What the properties speak of                                            *)
(***************************************************************************)
\* The integers a list of intervals covers.
Coverage(s) ==
    {x \in (-2) .. (MaxCoord + 1) : \E i \in 1 .. Len(s) : s[i][1] <= x /\ x < s[i][2]}

\* The stored pairs as a set.
Pairs(s) == {s[i] : i \in 1 .. Len(s)}

\* A well-formed disjoint interval list.
WellFormed(s) ==
    /\ \A i \in 1 .. Len(s) : s[i][1] < s[i][2]
    /\ \A i \in 1 .. (Len(s) - 1) : s[i][1] < s[i + 1][1] /\ s[i][2] < s[i + 1][1]

TotalMatches == total_length = SumLen(intervals)

Unchanged == intervals = before.intervals /\ total_length = before.total_length

(***************************************************************************)
(* Properties of Spec                                                      *)
(***************************************************************************)
LastMutated == last.op \in {"add", "remove"}

\* C1: after any sequence of add and remove calls the stored list is a
\* well-formed disjoint interval list: every pair has l < r, the pairs
\* ascend by l, and adjacent pairs satisfy r_i < l_{i+1} strictly.
C1_WellFormed == WellFormed(intervals)

\* Both calls have acted and three separate intervals are stored.
C1_Witness ==
    /\ last.op = "remove" /\ last.l < last.r
    /\ Len(intervals) >= 3
    /\ intervals # before.intervals

\* C2: total_length always equals the sum of (r - l) over to_list().
C2_TotalLengthIsSum == TotalMatches

\* A remove has just split an interval, with two intervals left.
C2_Witness ==
    /\ last.op = "remove"
    /\ Len(intervals) > Len(before.intervals)
    /\ total_length > 0
    /\ total_length < before.total_length

\* The stored interval that holds all of [l, r), if any.
Holders(s, l, r) == {i \in 1 .. Len(s) : s[i][1] <= l /\ r <= s[i][2]}

\* C3: after add(l, r) with l < r the covered integers are the previously
\* covered ones united with l..r-1, and [l, r) lies in a single stored
\* interval that also holds every previously stored interval that
\* overlapped or touched [l, r).
C3_AddIsUnion ==
    (last.op = "add" /\ last.l < last.r) =>
        /\ Coverage(intervals) =
               Coverage(before.intervals) \cup (last.l .. (last.r - 1))
        /\ Cardinality(Holders(intervals, last.l, last.r)) = 1
        /\ \A i \in Holders(intervals, last.l, last.r) :
               \A p \in Pairs(before.intervals) :
                   (p[2] >= last.l /\ p[1] <= last.r) =>
                       (intervals[i][1] <= p[1] /\ p[2] <= intervals[i][2])

\* An add has merged an interval it overlaps with one it only touches.
C3_Witness ==
    /\ last.op = "add" /\ last.l < last.r
    /\ Len(before.intervals) >= Len(intervals) + 1
    /\ \E p \in Pairs(before.intervals) : p[2] = last.l
    /\ \E p \in Pairs(before.intervals) : p[1] < last.r /\ last.r < p[2]

\* What remove(l, r) is to leave of the list s.
Subtracted(s, l, r) ==
    {p \in Pairs(s) : p[2] <= l \/ p[1] >= r}
        \cup {<<p[1], l>> : p \in {q \in Pairs(s) : q[1] < l /\ l < q[2]}}
        \cup {<<r, p[2]>> : p \in {q \in Pairs(s) : q[1] < r /\ r < q[2]}}

\* C4: after remove(l, r) with l < r the covered integers are the
\* previously covered ones minus l..r-1; an interval straddling l keeps
\* (L, l), one straddling r keeps (r, R), one inside [l, r) disappears and
\* one that does not overlap [l, r) (touching included) stays as it was.
C4_RemoveIsDifference ==
    (last.op = "remove" /\ last.l < last.r) =>
        /\ Coverage(intervals) =
               Coverage(before.intervals) \ (last.l .. (last.r - 1))
        /\ Pairs(intervals) = Subtracted(before.intervals, last.l, last.r)
        /\ Len(intervals) = Cardinality(Pairs(intervals))

\* A remove has cut a left remnant off one interval, swallowed another
\* whole, and left alone a third that starts at r.
C4_Witness ==
    /\ last.op = "remove" /\ last.l < last.r
    /\ \E p \in Pairs(before.intervals) : p[1] < last.l /\ last.l < p[2]
    /\ \E p \in Pairs(before.intervals) : p[1] = last.r
    /\ \E p \in Pairs(before.intervals) : last.l <= p[1] /\ p[2] <= last.r

\* C5 as claimed: add(l, r) or remove(l, r) with r < l fails with
\* InvalidRange and does not return normally.
C5_RaisesInvalidRange ==
    (LastMutated /\ last.r < last.l) => last.outcome = "InvalidRange"

\* C5 as amended: add(l, r) or remove(l, r) with r < l returns normally,
\* raising nothing, and has mutated nothing.
C5_ReturnsSilently ==
    (LastMutated /\ last.r < last.l) =>
        (last.outcome = "returned" /\ Unchanged)

\* An inverted add on a set that holds intervals.
C5_Witness ==
    /\ last.op = "add" /\ last.r < last.l
    /\ intervals # <<>>

\* The stored intervals that hold x.
Holding(s, x) == {i \in 1 .. Len(s) : s[i][1] <= x /\ x < s[i][2]}

\* C6: get_interval(x) returns the stored (l, r) with l <= x < r when there
\* is one (it is unique and has the largest start <= x) and None
\* otherwise; x in s is true exactly when there is one.
C6_PointQueries ==
    LET x == last.l
        hit == Holding(intervals, x)
    IN  /\ last.op \in {"get_interval", "contains"} =>
               Cardinality(hit) <= 1
        /\ (last.op = "get_interval" /\ hit = {}) => last.result = None
        /\ (last.op = "get_interval" /\ hit # {}) =>
               \E i \in hit :
                   /\ last.result = intervals[i]
                   /\ \A j \in 1 .. Len(intervals) :
                          intervals[j][1] <= x =>
                              intervals[j][1] <= intervals[i][1]
        /\ last.op = "contains" => (last.found = (hit # {}))

\* The right end of a stored interval has been asked for and is reported
\* as not contained.
C6_Witness ==
    /\ last.op = "contains"
    /\ ~last.found
    /\ \E p \in Pairs(intervals) : p[2] = last.l
    /\ Len(intervals) >= 2

\* C7: add(l, r) or remove(l, r) with l >= r leaves to_list() and
\* total_length exactly as they were.
C7_EmptyRangeNoOp ==
    (LastMutated /\ last.l >= last.r) => Unchanged

\* An empty-range remove at a point inside a stored interval.
C7_Witness ==
    /\ last.op = "remove" /\ last.l = last.r
    /\ Holding(intervals, last.l) # {}

\* C8: add(l, r) twice in a row (l <= r) gives the to_list() and the
\* total_length that add(l, r) once gives.
C8_AddIdempotent ==
    (chain = "add_add" /\ last.l <= last.r) => Unchanged

\* The same add twice, the first of which merged stored intervals.
C8_Witness ==
    /\ chain = "add_add" /\ last.l < last.r
    /\ Len(intervals) >= 2
    /\ \E p \in Pairs(intervals) : p[1] < last.l /\ last.r < p[2]

\* C9: add(l, r) then remove(l, r) (l <= r) on an empty set gives an empty
\* set: to_list() = [], len = 0, total_length = 0.
C9_AddThenRemove ==
    (chain = "empty_add_remove" /\ last.l <= last.r) =>
        (intervals = <<>> /\ Len(intervals) = 0 /\ total_length = 0)

\* add(l, r), remove(l, r) on the empty set with l < r.
C9_Witness ==
    /\ chain = "empty_add_remove" /\ last.l < last.r
    /\ before.intervals = <<(<<last.l, last.r>>)>>

(***************************************************************************)
(* Properties of ConcSpec                                                  *)
(***************************************************************************)
\* C10: as long as every call has run to completion before the next one
\* started, the list between calls is well formed and total_length is the
\* sum of the lengths; calls that interleave step by step reach states
\* where it is not (the witness).
C10_SerializedCallsKeepInvariants ==
    (~overlapped /\ AllIdle) =>
        (WellFormed(intervals) /\ TotalMatches)

\* Two interleaved calls have both returned and left overlapping intervals
\* and a total_length that is not the sum of the lengths.
C10_Witness ==
    /\ AllIdle
    /\ calls = 2
    /\ ~WellFormed(intervals)
    /\ ~TotalMatches

====
